---- MODULE Spec2Model ----
(***************************************************************************)
(* Model of the Oxxius laser driver (oxxius_laser.py): the transaction     *)
(* engine OxxiusLaser._send/get/set over a serial transport, and the       *)
(* facades LCX, LBX and L6CCCombiner built on it.                          *)
(*                                                                         *)
(* Byte strings and text are sequences of one-character strings, so that   *)
(* framing, formatting and parsing are computed and not assumed.           *)
(***************************************************************************)
EXTENDS Integers, Sequences, FiniteSets, TLC

VARIABLES
    prefix,     \* self.prefix of each handle
    inbuf,      \* the serial port's input buffer: the lines received, unread
    late,       \* device replies still on their way to the input buffer
    call,       \* the last call made: [self, op, value, status, channel]
    trace,      \* what the last call did on the transport and the logger
    exc,        \* the exception the last call ended with, "none" if none
    ret,        \* the value the last call returned
    pc,         \* of each thread: the statements of its _send already executed
    inflight    \* the requests written whose read has not completed

vars == <<prefix, inbuf, late, call, trace, exc, ret, pc, inflight>>

----------------------------------------------------------------------------
(* Bounds of the model *)

\* the elapsed times a read can take run over 0..MaxElapsed
MaxElapsed == 2
\* the maximum laser power the device has, in mW
MaxPower == 2
\* the most lines that can wait in the input buffer or on their way to it
MaxPending == 1

----------------------------------------------------------------------------
(* Text *)

CR == "\r"
LF == "\n"
SP == " "

DigitChars == <<"0", "1", "2", "3", "4", "5", "6", "7", "8", "9">>

IsDigit(ch) == \E d \in 1..10 : DigitChars[d] = ch

DigitVal(ch) == (CHOOSE d \in 1..10 : DigitChars[d] = ch) - 1

RECURSIVE NatToStr(_)
\* str(n) for n >= 0, in decimal
NatToStr(n) ==
    IF n < 10 THEN <<DigitChars[n + 1]>>
    ELSE NatToStr(n \div 10) \o <<DigitChars[(n % 10) + 1]>>

\* f"{value}" for an int
FormatInt(n) == IF n < 0 THEN <<"-">> \o NatToStr(-n) ELSE NatToStr(n)

RECURSIVE DigitsToNat(_)
DigitsToNat(s) ==
    IF s = <<>> THEN 0
    ELSE 10 * DigitsToNat(SubSeq(s, 1, Len(s) - 1)) + DigitVal(s[Len(s)])

AllDigits(s) == s # <<>> /\ \A i \in 1..Len(s) : IsDigit(s[i])

\* int(s): [ok |-> FALSE] stands for the ValueError of a malformed literal
ParseInt(s) ==
    LET signed == s # <<>> /\ s[1] \in {"-", "+"}
        digits == IF signed THEN Tail(s) ELSE s
    IN  IF AllDigits(digits)
        THEN [ok |-> TRUE,
              val |-> IF signed /\ s[1] = "-" THEN -DigitsToNat(digits)
                      ELSE DigitsToNat(digits)]
        ELSE [ok |-> FALSE, val |-> 0]

RECURSIVE rstrip(_, _)
\* bytes.rstrip(chars): drops every trailing byte that is in chars
rstrip(s, chars) ==
    IF s # <<>> /\ (\E i \in 1..Len(chars) : chars[i] = s[Len(s)])
    THEN rstrip(SubSeq(s, 1, Len(s) - 1), chars)
    ELSE s

\* whether sub occurs in s as a contiguous run
Contains(s, sub) ==
    \E i \in 0..(Len(s) - Len(sub)) : SubSeq(s, i + 1, i + Len(sub)) = sub

----------------------------------------------------------------------------
(* The protocol vocabulary *)

\* class Cmd(StrEnum): a member is [enum |-> TRUE, value |-> its text]
Cmd ==
    [LaserDriverControlMode |-> [enum |-> TRUE, value |-> <<"A", "C", "C">>],
     ExternalPowerControl   |-> [enum |-> TRUE, value |-> <<"A", "M">>],
     LaserEmission          |-> [enum |-> TRUE, value |-> <<"L">>],
     LaserCurrent           |-> [enum |-> TRUE, value |-> <<"C", "M">>],
     LaserPower             |-> [enum |-> TRUE, value |-> <<"P">>],
     FiveSecEmissionDelay   |-> [enum |-> TRUE, value |-> <<"C", "D", "R", "H">>],
     PercentageSplit        |-> [enum |-> TRUE, value |-> <<"I", "P", "A">>],
     DigitalModulation      |-> [enum |-> TRUE, value |-> <<"T", "T", "L">>]]

\* class Query(StrEnum)
Query ==
    [DigitalModulation      |-> [enum |-> TRUE, value |-> <<"?", "T", "T", "L">>],
     EmmissionKeyStatus     |-> [enum |-> TRUE, value |-> <<"?", "K", "E", "Y">>],
     LaserType              |-> [enum |-> TRUE, value |-> <<"I", "N", "F", "?">>],
     USBConfiguration       |-> [enum |-> TRUE, value |-> <<"?", "C", "D", "C">>],
     LaserDriverControlMode |-> [enum |-> TRUE, value |-> <<"?", "A", "C", "C">>],
     FaultCode              |-> [enum |-> TRUE, value |-> <<"?", "F">>],
     ExternalPowerControl   |-> [enum |-> TRUE, value |-> <<"?", "A", "M">>],
     BasePlateTemperature   |-> [enum |-> TRUE, value |-> <<"?", "B", "T">>],
     FiveSecEmissionDelay   |-> [enum |-> TRUE, value |-> <<"?", "C", "D", "R", "H">>],
     LaserIdentification    |-> [enum |-> TRUE, value |-> <<"?", "H", "I", "D">>],
     LaserEmission          |-> [enum |-> TRUE, value |-> <<"?", "L">>],
     LaserPower             |-> [enum |-> TRUE, value |-> <<"?", "P">>],
     LaserPowerSetting      |-> [enum |-> TRUE, value |-> <<"?", "S", "P">>],
     MaximumLaserPower      |-> [enum |-> TRUE, value |-> <<"?", "M", "A", "X", "L", "P">>],
     LaserCurrent           |-> [enum |-> TRUE, value |-> <<"?", "C">>],
     LaserCurrentSetting    |-> [enum |-> TRUE, value |-> <<"?", "S", "C">>],
     MaximumLaserCurrent    |-> [enum |-> TRUE, value |-> <<"?", "M", "A", "X", "L", "C">>],
     InterlockStatus        |-> [enum |-> TRUE, value |-> <<"?", "I", "N", "T">>],
     PercentageSplitStatus  |-> [enum |-> TRUE, value |-> <<"?", "I", "P", "A">>]]

\* a plain str: what a StrEnum member + str (or str + member) evaluates to
Str(s) == [enum |-> FALSE, value |-> s]

\* member + suffix, suffix a plain text: str.__add__ gives a plain str
Concat(a, b) == Str(a.value \o b.value)

\* class BoolVal(StrEnum): the members by name, and the text each one is
BoolVal == {"OFF", "ON"}

BoolValValue(b) == IF b = "OFF" THEN <<"0">> ELSE <<"1">>

\* BoolVal(text): the member whose value is text; ok = FALSE is the ValueError
BoolValOf(s) ==
    IF \E b \in BoolVal : BoolValValue(b) = s
    THEN [ok |-> TRUE, member |-> CHOOSE b \in BoolVal : BoolValValue(b) = s]
    ELSE [ok |-> FALSE, member |-> "OFF"]

\* class OxxiusUSBConfiguration(IntEnum): the members by name, with their values
OxxiusUSBConfiguration == [STANDARD_USB |-> 0, VIRTUAL_SERIAL_PORT |-> 1]

\* OxxiusUSBConfiguration(x): the member whose value equals x, x a value as
\* returned by a call; a str equals no int, whatever its digits; ok = FALSE
\* is the ValueError
OxxiusUSBConfigurationOf(x) ==
    IF x.kind = "int"
       /\ \E k \in DOMAIN OxxiusUSBConfiguration : OxxiusUSBConfiguration[k] = x.int
    THEN [ok |-> TRUE,
          member |-> CHOOSE k \in DOMAIN OxxiusUSBConfiguration :
                         OxxiusUSBConfiguration[k] = x.int]
    ELSE [ok |-> FALSE, member |-> ""]

\* OXXIUS_COM_SETUP["timeout"], in seconds
Timeout == 1

REPLY_TERMINATION == <<CR, LF>>

----------------------------------------------------------------------------
(* Values returned, and the steps a call leaves in its trace *)

None == [kind |-> "None", str |-> <<>>, name |-> "", list |-> <<>>, int |-> 0]
RetStr(s) == [None EXCEPT !.kind = "str", !.str = s]
RetBoolVal(b) == [None EXCEPT !.kind = "BoolVal", !.str = BoolValValue(b), !.name = b]
RetList(l) == [None EXCEPT !.kind = "list", !.list = l]
RetUSBConfiguration(m) == [None EXCEPT !.kind = "OxxiusUSBConfiguration", !.name = m]

\* one step of a call; answers is set on a read only (see Received)
Ev(op, data, elapsed) == [op |-> op, data |-> data, elapsed |-> elapsed, answers |-> 0]

\* the running state of one call: the transport, the trace, the outcome
Ctx(buf, lt) == [inbuf |-> buf, late |-> lt, trace |-> <<>>, exc |-> "none", ret |-> None]

Raise(c, e) == [c EXCEPT !.exc = e]
Return(c, r) == IF c.exc = "none" THEN [c EXCEPT !.ret = r] ELSE c
Log(c, level) ==
    IF c.exc = "none" THEN [c EXCEPT !.trace = Append(@, Ev(level, <<>>, 0))] ELSE c

----------------------------------------------------------------------------
(* The device and the transport, as the driver sees them *)

\* the payloads the device answers with
Payloads ==
    {<<>>, <<"0">>, <<"1">>, <<"3">>, <<"1", "0", ".", "0">>, FormatInt(MaxPower)}

\* what the environment does during one _send: the device answers in time
\* (the line is in the input buffer when the read starts), answers late (the
\* line arrives after the read has returned), or does not answer; elapsed is
\* the time the read takes when it returns no bytes
Env ==
    [resp : {"intime"}, line : Payloads, elapsed : {0}]
    \cup [resp : {"late"}, line : Payloads, elapsed : 0..MaxElapsed]
    \cup [resp : {"none"}, line : {<<>>}, elapsed : 0..MaxElapsed]

Pending(c) == Len(c.inbuf) + Len(c.late)

\* a line the device sent: its bytes, and the request it answers, kept to
\* tell whose reply a read returns: the place in the call's trace of the
\* write that asked for it, 0 once the call that asked has ended
Line(data, req) == [data |-> data, req |-> req]

\* the lines as they are when the call that asked for them has ended
Stale(lines) == [i \in 1..Len(lines) |-> Line(lines[i].data, 0)]

\* a read step that returned the line
Received(line, elapsed) ==
    [Ev("read_until", line.data, elapsed) EXCEPT !.answers = line.req]

\* Serial.write(frame), and what the device does about the frame
Write(c, frame, env) ==
    LET line == Line(env.line \o REPLY_TERMINATION, Len(c.trace) + 1)
    IN  [c EXCEPT !.inbuf = IF env.resp = "intime" THEN Append(@, line) ELSE @,
                  !.late = IF env.resp = "late" THEN Append(@, line) ELSE @,
                  !.trace = Append(@, Ev("write", frame, 0))]

\* Serial.read_until(REPLY_TERMINATION): the bytes it returns are the first
\* line of the input buffer, or none
Read(c, env) ==
    IF c.inbuf = <<>>
    THEN [c EXCEPT !.trace = Append(@, Ev("read_until", <<>>, env.elapsed))]
    ELSE [c EXCEPT !.inbuf = Tail(@),
                   !.trace = Append(@, Received(Head(c.inbuf), 0))]

\* Serial.write followed by Serial.read_until
Transact(c, frame, env) == Read(Write(c, frame, env), env)

\* the reply and the elapsed time of the read the call made last
LastRead(c) == c.trace[Len(c.trace)]

----------------------------------------------------------------------------
(* OxxiusLaser: the transaction engine *)

\* _send as it would be with the frame ended like a reply, by '\r\n'
_send_ending_crlf(c, pfx, msg, raise_timeout, env) ==
    IF c.exc # "none" THEN c
    ELSE
        LET prefix_msg == pfx \o msg \o <<CR, LF>>
            c1 == Transact(c, prefix_msg, env)
            reply == LastRead(c1).data
            elapsed == LastRead(c1).elapsed
        IN  IF Len(reply) = 0 /\ raise_timeout /\ elapsed > Timeout
            THEN Raise(c1, "SerialTimeoutException")
            ELSE Return(c1, RetStr(rstrip(reply, REPLY_TERMINATION)))

\* _send as it would be without the comparison of the elapsed time
_send_ignoring_elapsed(c, pfx, msg, raise_timeout, env) ==
    IF c.exc # "none" THEN c
    ELSE
        LET prefix_msg == pfx \o msg \o <<CR>>
            c1 == Transact(c, prefix_msg, env)
            reply == LastRead(c1).data
        IN  IF Len(reply) = 0 /\ raise_timeout
            THEN Raise(c1, "SerialTimeoutException")
            ELSE Return(c1, RetStr(rstrip(reply, REPLY_TERMINATION)))

_send(c, pfx, msg, raise_timeout, env) ==
    IF c.exc # "none" THEN c
    ELSE
        LET prefix_msg == pfx \o msg \o <<CR>>
            c1 == Transact(c, prefix_msg, env)
            reply == LastRead(c1).data
            elapsed == LastRead(c1).elapsed
        IN  IF Len(reply) = 0 /\ raise_timeout /\ elapsed > Timeout
            THEN Raise(c1, "SerialTimeoutException")
            ELSE Return(c1, RetStr(rstrip(reply, REPLY_TERMINATION)))

\* get(msg): msg.value exists only on an enum member
get(c, pfx, msg, env) ==
    IF c.exc # "none" THEN c
    ELSE IF ~msg.enum THEN Raise(c, "AttributeError")
    ELSE _send(c, pfx, msg.value, TRUE, env)

\* set(msg, value): f"{msg} {value}", value already formatted
set(c, pfx, msg, value, env) ==
    IF c.exc # "none" THEN c
    ELSE _send(c, pfx, msg.value \o <<SP>> \o value, TRUE, env)

\* the decoding as it would be with the reply tested for truth: bool(reply)
getBoolVal_truthy(c, pfx, msg, env) ==
    LET c1 == get(c, pfx, msg, env)
    IN  Return(c1, RetBoolVal(IF c1.ret.str = <<>> THEN "OFF" ELSE "ON"))

\* BoolVal(self.get(msg))
getBoolVal(c, pfx, msg, env) ==
    LET c1 == get(c, pfx, msg, env)
        b == BoolValOf(c1.ret.str)
    IN  IF c1.exc # "none" THEN c1
        ELSE IF b.ok THEN Return(c1, RetBoolVal(b.member))
        ELSE Raise(c1, "ValueError")

\* __init__ as it would be with the except clause not raising again
init_swallowing_timeout(c, pfx, env) ==
    LET c1 == [c EXCEPT !.inbuf = <<>>,
                        !.trace = Append(@, Ev("reset_input_buffer", <<>>, 0))]
        c2 == get(c1, pfx, Query.LaserCurrent, env)
    IN  Return(IF c2.exc = "SerialTimeoutException" THEN Raise(c2, "none") ELSE c2, None)

\* OxxiusLaser.__init__ after the port is open
init(c, pfx, env) ==
    LET c1 == [c EXCEPT !.inbuf = <<>>,
                        !.trace = Append(@, Ev("reset_input_buffer", <<>>, 0))]
    IN  Return(get(c1, pfx, Query.LaserCurrent, env), None)

------------------------------------------------------------------------------------------------------------------------
(* OxxiusLaser: the shared facade *)

\* class FaultCodeField(IntEnum), the members by value in definition order
FaultCodeField == <<0, 1, 2, 3, 4, 5, 7>>

\* bin(n)[-1] == '1'
LastBinDigitIsOne(n) == (IF n < 0 THEN -n ELSE n) % 2 = 1

\* the for loop of faults over fields: its body ends in "return faults", so
\* the first pass through the body returns; over no fields the loop falls
\* through and the property returns None
FaultsLoop(fields, fault_code, faults) ==
    IF fields = <<>> THEN None
    ELSE RetList(IF LastBinDigitIsOne(fault_code)
                 THEN Append(faults, Head(fields))
                 ELSE faults)

\* what faults returns for the fault code the device reported
FaultsOf(fault_code) == FaultsLoop(Tail(FaultCodeField), fault_code, <<>>)

faults(c, pfx, env) ==
    LET c1 == get(c, pfx, Query.FaultCode, env)
        fault_code == ParseInt(c1.ret.str)
    IN  IF c1.exc # "none" THEN c1
        ELSE IF ~fault_code.ok THEN Raise(c1, "ValueError")
        ELSE Return(c1, FaultsOf(fault_code.val))

----------------------------------------------------------------------------
(* The properties and methods that only pass a query or a command on *)

G(cls, op, query, decode) == [cls |-> cls, op |-> op, query |-> query, decode |-> decode]

\* cls.op: return self.get(query), or return BoolVal(self.get(query))
Getters ==
    {G("OxxiusLaser", "temperature", Query.BasePlateTemperature, "str"),
     G("OxxiusLaser", "serial_number", Query.LaserIdentification, "str"),
     G("LCX", "emission_status", Query.LaserEmission, "BoolVal"),
     G("LCX", "max_power", Query.MaximumLaserPower, "str"),
     G("LCX", "power", Query.LaserPower, "str"),
     G("LCX", "power_setpoint", Query.LaserPowerSetting, "str"),
     G("LBX", "cdrh", Query.FiveSecEmissionDelay, "BoolVal"),
     G("LBX", "constant_current", Query.LaserDriverControlMode, "BoolVal"),
     G("LBX", "digital_modulation", Query.DigitalModulation, "BoolVal"),
     G("LBX", "external_control_mode", Query.ExternalPowerControl, "BoolVal"),
     G("LBX", "emission_status", Query.LaserEmission, "BoolVal"),
     G("LBX", "max_power", Query.MaximumLaserPower, "str"),
     G("LBX", "power", Query.LaserPower, "str"),
     G("LBX", "power_setpoint", Query.LaserPowerSetting, "str"),
     G("LBX", "max_current", Query.MaximumLaserCurrent, "str"),
     G("LBX", "current", Query.LaserPower, "str"),
     G("LBX", "current_setpoint", Query.LaserCurrentSetting, "str"),
     G("L6CCCombiner", "percentage_split", Query.PercentageSplitStatus, "str"),
     G("L6CCCombiner", "cdrh", Query.FiveSecEmissionDelay, "BoolVal"),
     G("L6CCCombiner", "laser_type", Query.LaserType, "str"),
     G("L6CCCombiner", "interlock_status", Query.InterlockStatus, "BoolVal"),
     G("L6CCCombiner", "emmision_key_status", Query.EmmissionKeyStatus, "BoolVal"),
     G("L6CCCombiner", "LBX_constant_current_status", Query.LaserDriverControlMode,
       "BoolVal")}

getter(c, pfx, g, env) ==
    IF g.decode = "BoolVal" THEN getBoolVal(c, pfx, g.query, env)
    ELSE get(c, pfx, g.query, env)

S(cls, op, cmd, arg) == [cls |-> cls, op |-> op, cmd |-> cmd, arg |-> arg]

\* cls.op: self.set(cmd, arg), arg a fixed BoolVal or the caller's BoolVal
Setters ==
    {S("LCX", "enable", Cmd.LaserEmission, "ON"),
     S("LCX", "disable", Cmd.LaserEmission, "OFF"),
     S("LBX", "enable", Cmd.LaserEmission, "ON"),
     S("LBX", "disable", Cmd.LaserEmission, "OFF"),
     S("LBX", "cdrh.setter", Cmd.FiveSecEmissionDelay, "status"),
     S("LBX", "external_control_mode.setter", Cmd.ExternalPowerControl, "status"),
     S("L6CCCombiner", "cdrh.setter", Cmd.FiveSecEmissionDelay, "status"),
     S("L6CCCombiner", "LBX_constant_current_status.setter",
       Cmd.LaserDriverControlMode, "status")}

setter(c, pfx, s, status, env) ==
    Return(set(c, pfx, s.cmd, BoolValValue(IF s.arg = "status" THEN status ELSE s.arg),
               env),
           None)

----------------------------------------------------------------------------
(* LCX *)

\* the upper limit of a percentage
PercentMax == 100

\* value > self.max_power: the property is read, and it is a str, which an
\* int does not compare with
GreaterThanMaxPower(c, pfx, value, env) ==
    LET c1 == get(c, pfx, Query.MaximumLaserPower, env)
    IN  IF c1.exc # "none" THEN c1
        ELSE IF c1.ret.kind = "str" THEN Raise(c1, "TypeError")
        ELSE Return(c1, None)

LCX_power_set(c, pfx, value, env) ==
    Return(set(c, pfx, Cmd.LaserPower, FormatInt(value), env), None)

\* if 0 > value > self.max_power: the chain reads max_power only when 0 > value
LCX_power_setpoint_set(c, pfx, value, e1, e2) ==
    IF 0 > value
    THEN Log(GreaterThanMaxPower(GreaterThanMaxPower(c, pfx, value, e1), pfx, value, e2),
             "log.error")
    ELSE Return(set(c, pfx, Cmd.LaserPower, FormatInt(value), e1), None)

----------------------------------------------------------------------------
(* LBX *)

\* the setter as it would be with the command in an else branch of the warning
LBX_constant_current_set_blocking(c, pfx, value, e1, e2) ==
    LET c1 == IF value = "OFF" THEN getBoolVal(c, pfx, Query.DigitalModulation, e1)
              ELSE c
    IN  IF value = "OFF" /\ c1.exc = "none" /\ c1.ret.name = "ON"
        THEN Return(Log(c1, "log.warning"), None)
        ELSE Return(set(c1, pfx, Cmd.LaserDriverControlMode, BoolValValue(value), e2),
                    None)

LBX_constant_current_set(c, pfx, value, e1, e2) ==
    LET c1 == IF value = "OFF" THEN getBoolVal(c, pfx, Query.DigitalModulation, e1)
              ELSE c
        c2 == IF value = "OFF" /\ c1.exc = "none" /\ c1.ret.name = "ON"
              THEN Log(c1, "log.warning")
              ELSE c1
    IN  Return(set(c2, pfx, Cmd.LaserDriverControlMode, BoolValValue(value), e2), None)

\* the setter as it would be with the command sent after the warning too
LBX_digital_modulation_set_unblocked(c, pfx, value, e1, e2) ==
    LET c1 == getBoolVal(c, pfx, Query.LaserDriverControlMode, e1)
        c2 == IF c1.exc = "none" /\ c1.ret.name = "OFF" THEN Log(c1, "log.warning")
              ELSE c1
    IN  Return(set(c2, pfx, Cmd.DigitalModulation, BoolValValue(value), e2), None)

LBX_digital_modulation_set(c, pfx, value, e1, e2) ==
    LET c1 == getBoolVal(c, pfx, Query.LaserDriverControlMode, e1)
    IN  IF c1.exc # "none" THEN c1
        ELSE IF c1.ret.name = "OFF" THEN Return(Log(c1, "log.warning"), None)
        ELSE Return(set(c1, pfx, Cmd.DigitalModulation, BoolValValue(value), e2), None)

LBX_power_setpoint_set(c, pfx, value, e1, e2) ==
    IF 0 > value
    THEN Log(GreaterThanMaxPower(GreaterThanMaxPower(c, pfx, value, e1), pfx, value, e2),
             "log.error")
    ELSE
        LET c1 == getBoolVal(c, pfx, Query.LaserDriverControlMode, e1)
            c2 == IF c1.exc = "none" /\ c1.ret.name = "ON" THEN Log(c1, "log.warning")
                  ELSE c1
        IN  Return(set(c2, pfx, Cmd.LaserPower, FormatInt(value), e2), None)

\* if 0 > value > 100
LBX_current_setpoint_set(c, pfx, value, e1, e2) ==
    IF 0 > value /\ value > PercentMax
    THEN Log(GreaterThanMaxPower(c, pfx, value, e1), "log.error")
    ELSE
        LET c1 == getBoolVal(c, pfx, Query.LaserDriverControlMode, e1)
            c2 == IF c1.exc = "none" /\ c1.ret.name = "OFF" THEN Log(c1, "log.warning")
                  ELSE c1
        IN  Return(set(c2, pfx, Cmd.LaserCurrent, FormatInt(value), e2), None)

----------------------------------------------------------------------------
(* L6CCCombiner *)

\* the setter as it would be with the upper limit itself rejected
L6CC_percentage_split_set_exclusive(c, pfx, value, env) ==
    IF value >= PercentMax \/ value < 0
    THEN Return(Log(c, "log.error"), None)
    ELSE Return(set(c, pfx, Cmd.PercentageSplit, FormatInt(value), env), None)

L6CC_percentage_split_set(c, pfx, value, env) ==
    IF value > PercentMax \/ value < 0
    THEN Return(Log(c, "log.error"), None)
    ELSE Return(set(c, pfx, Cmd.PercentageSplit, FormatInt(value), env), None)

L6CC_port_configuration(c, pfx, env) ==
    LET c1 == get(c, pfx, Query.USBConfiguration, env)
        configuration == OxxiusUSBConfigurationOf(c1.ret)
    IN  IF c1.exc # "none" THEN c1
        ELSE IF configuration.ok THEN Return(c1, RetUSBConfiguration(configuration.member))
        ELSE Raise(c1, "ValueError")

\* BoolVal(self.get(Query.DigitalModulation+prefix))
L6CC_digital_modualtion(c, pfx, channel, env) ==
    getBoolVal(c, pfx, Concat(Query.DigitalModulation, Str(channel)), env)

\* if self.get(f"L{prefix} "+Query.LaserDriverControlMode) == BoolVal.OFF: the
\* reply is a str, equal to BoolVal.OFF when it is the text of OFF
L6CC_set_digital_modulation(c, pfx, channel, value, e1, e2) ==
    LET c1 == get(c, pfx,
                  Concat(Str(<<"L">> \o channel \o <<SP>>), Query.LaserDriverControlMode),
                  e1)
    IN  IF c1.exc # "none" THEN c1
        ELSE IF c1.ret.str = BoolValValue("OFF") THEN Return(Log(c1, "log.warning"), None)
        ELSE Return(set(c1, pfx, Concat(Cmd.DigitalModulation, Str(channel)),
                        BoolValValue(value), e2),
                    None)

\* BoolVal(self.get(Query.ExternalPowerControl+prefix))
L6CC_external_control_mode(c, pfx, channel, env) ==
    getBoolVal(c, pfx, Concat(Query.ExternalPowerControl, Str(channel)), env)

L6CC_set_external_control_mode(c, pfx, channel, value, env) ==
    Return(set(c, pfx, Concat(Cmd.ExternalPowerControl, Str(channel)),
               BoolValValue(value), env),
           None)

----------------------------------------------------------------------------
(* The handles *)

Handles == {"combiner", "lbx", "lcx"}

ClassOf(h) ==
    CASE h = "combiner" -> "L6CCCombiner"
      [] h = "lbx" -> "LBX"
      [] h = "lcx" -> "LCX"

\* the prefix argument each handle is constructed with; none for the combiner
PrefixArg(h) ==
    CASE h = "combiner" -> [none |-> TRUE, str |-> <<>>]
      [] h = "lbx" -> [none |-> FALSE, str |-> <<"L", "1">>]
      [] h = "lcx" -> [none |-> FALSE, str |-> <<"L", "2">>]

\* self.prefix = f'{prefix} ' if prefix is not None else ''
PrefixField(p) == IF p.none THEN <<>> ELSE p.str \o <<SP>>

\* the values the numeric setters are called with
Values == {-1, 0, 1, MaxPower, MaxPower + 1, PercentMax, PercentMax + 1}

\* the channel tokens the per-channel methods of the combiner are called with
Channels == {<<"L", "1">>, <<"L", "2">>}

\* the threads of a program that calls through two handles on one port, and
\* the handle each calls through: the combiner, and the laser built on its ser
Threads == {"t1", "t2"}
HandleOf(t) == IF t = "t1" THEN "combiner" ELSE "lbx"

NoCall == [self |-> "", op |-> "", value |-> 0, status |-> "", channel |-> <<>>]
TheCall(h, op) == [NoCall EXCEPT !.self = h, !.op = op]

\* the handles are constructed and no call has been made
Init ==
    /\ prefix = [h \in Handles |-> PrefixField(PrefixArg(h))]
    /\ inbuf = <<>>
    /\ late = <<>>
    /\ call = NoCall
    /\ trace = <<>>
    /\ exc = "none"
    /\ ret = None
    /\ pc = [t \in Threads |-> 0]
    /\ inflight = 0

Start == Ctx(inbuf, late)

\* the state a finished call leaves to its caller
Finish(c, cl) ==
    /\ Pending(c) <= MaxPending
    /\ inbuf' = Stale(c.inbuf)
    /\ late' = Stale(c.late)
    /\ trace' = c.trace
    /\ exc' = c.exc
    /\ ret' = IF c.exc = "none" THEN c.ret ELSE None
    /\ call' = cl
    /\ UNCHANGED <<pc, inflight>>

\* the caller has taken the outcome of the call and is ready for the next
Idle ==
    /\ call # NoCall
    /\ call' = NoCall
    /\ trace' = <<>>
    /\ exc' = "none"
    /\ ret' = None
    /\ UNCHANGED <<prefix, inbuf, late, pc, inflight>>

\* a late reply reaches the input buffer
Deliver ==
    /\ late # <<>>
    /\ inbuf' = Append(inbuf, Head(late))
    /\ late' = Tail(late)
    /\ UNCHANGED <<prefix, call, trace, exc, ret, pc, inflight>>

\* LCX(port, prefix), LBX(port, prefix), L6CCCombiner(port) on the open port
Construct(h) ==
    /\ call = NoCall
    /\ \E env \in Env :
        LET p == PrefixField(PrefixArg(h))
            c == init(Start, p, env)
        IN  /\ Finish(c, TheCall(h, "__init__"))
            /\ prefix' = [prefix EXCEPT ![h] = p]

\* _send(msg, raise_timeout) called directly
CallSend(h) ==
    /\ call = NoCall
    /\ \E raise_timeout \in BOOLEAN, env \in Env :
        /\ Finish(_send(Start, prefix[h], Query.LaserCurrent.value, raise_timeout, env),
                  [TheCall(h, "_send") EXCEPT
                     !.status = IF raise_timeout THEN "raise" ELSE "quiet"])
        /\ UNCHANGED prefix

CallFaults(h) ==
    /\ call = NoCall
    /\ \E env \in Env :
        /\ Finish(faults(Start, prefix[h], env), TheCall(h, "faults"))
        /\ UNCHANGED prefix

CallGetter(h) ==
    /\ call = NoCall
    /\ \E g \in Getters, env \in Env :
        /\ g.cls \in {"OxxiusLaser", ClassOf(h)}
        /\ Finish(getter(Start, prefix[h], g, env), TheCall(h, g.op))
        /\ UNCHANGED prefix

CallSetter(h) ==
    /\ call = NoCall
    /\ \E s \in Setters, status \in BoolVal, env \in Env :
        /\ s.cls = ClassOf(h)
        /\ s.arg = "status" \/ s.arg = status
        /\ Finish(setter(Start, prefix[h], s, status, env),
                  [TheCall(h, s.op) EXCEPT !.status = status])
        /\ UNCHANGED prefix

CallPowerSet(h) ==
    /\ call = NoCall
    /\ ClassOf(h) = "LCX"
    /\ \E value \in Values, env \in Env :
        /\ Finish(LCX_power_set(Start, prefix[h], value, env),
                  [TheCall(h, "power.setter") EXCEPT !.value = value])
        /\ UNCHANGED prefix

CallPowerSetpointSet(h) ==
    /\ call = NoCall
    /\ ClassOf(h) \in {"LCX", "LBX"}
    /\ \E value \in Values, e1 \in Env, e2 \in Env :
        /\ Finish(IF ClassOf(h) = "LCX"
                  THEN LCX_power_setpoint_set(Start, prefix[h], value, e1, e2)
                  ELSE LBX_power_setpoint_set(Start, prefix[h], value, e1, e2),
                  [TheCall(h, "power_setpoint.setter") EXCEPT !.value = value])
        /\ UNCHANGED prefix

CallConstantCurrentSet(h) ==
    /\ call = NoCall
    /\ ClassOf(h) = "LBX"
    /\ \E value \in BoolVal, e1 \in Env, e2 \in Env :
        /\ Finish(LBX_constant_current_set(Start, prefix[h], value, e1, e2),
                  [TheCall(h, "constant_current.setter") EXCEPT !.status = value])
        /\ UNCHANGED prefix

CallDigitalModulationSet(h) ==
    /\ call = NoCall
    /\ ClassOf(h) = "LBX"
    /\ \E value \in BoolVal, e1 \in Env, e2 \in Env :
        /\ Finish(LBX_digital_modulation_set(Start, prefix[h], value, e1, e2),
                  [TheCall(h, "digital_modulation.setter") EXCEPT !.status = value])
        /\ UNCHANGED prefix

CallCurrentSetpointSet(h) ==
    /\ call = NoCall
    /\ ClassOf(h) = "LBX"
    /\ \E value \in Values, e1 \in Env, e2 \in Env :
        /\ Finish(LBX_current_setpoint_set(Start, prefix[h], value, e1, e2),
                  [TheCall(h, "current_setpoint.setter") EXCEPT !.value = value])
        /\ UNCHANGED prefix

CallPercentageSplitSet(h) ==
    /\ call = NoCall
    /\ ClassOf(h) = "L6CCCombiner"
    /\ \E value \in Values, env \in Env :
        /\ Finish(L6CC_percentage_split_set(Start, prefix[h], value, env),
                  [TheCall(h, "percentage_split.setter") EXCEPT !.value = value])
        /\ UNCHANGED prefix

CallDigitalModualtion(h) ==
    /\ call = NoCall
    /\ ClassOf(h) = "L6CCCombiner"
    /\ \E channel \in Channels, env \in Env :
        /\ Finish(L6CC_digital_modualtion(Start, prefix[h], channel, env),
                  [TheCall(h, "digital_modualtion") EXCEPT !.channel = channel])
        /\ UNCHANGED prefix

CallSetDigitalModulation(h) ==
    /\ call = NoCall
    /\ ClassOf(h) = "L6CCCombiner"
    /\ \E channel \in Channels, value \in BoolVal, e1 \in Env, e2 \in Env :
        /\ Finish(L6CC_set_digital_modulation(Start, prefix[h], channel, value, e1, e2),
                  [TheCall(h, "set_digital_modulation") EXCEPT
                     !.channel = channel, !.status = value])
        /\ UNCHANGED prefix

CallPortConfiguration(h) ==
    /\ call = NoCall
    /\ ClassOf(h) = "L6CCCombiner"
    /\ \E env \in Env :
        /\ Finish(L6CC_port_configuration(Start, prefix[h], env),
                  TheCall(h, "port_configuration"))
        /\ UNCHANGED prefix

CallExternalControlMode(h) ==
    /\ call = NoCall
    /\ ClassOf(h) = "L6CCCombiner"
    /\ \E channel \in Channels, env \in Env :
        /\ Finish(L6CC_external_control_mode(Start, prefix[h], channel, env),
                  [TheCall(h, "external_control_mode") EXCEPT !.channel = channel])
        /\ UNCHANGED prefix

CallSetExternalControlMode(h) ==
    /\ call = NoCall
    /\ ClassOf(h) = "L6CCCombiner"
    /\ \E channel \in Channels, value \in BoolVal, env \in Env :
        /\ Finish(L6CC_set_external_control_mode(Start, prefix[h], channel, value, env),
                  [TheCall(h, "set_external_control_mode") EXCEPT
                     !.channel = channel, !.status = value])
        /\ UNCHANGED prefix

Next ==
    \/ Idle
    \/ Deliver
    \/ \E h \in Handles :
        \/ Construct(h)
        \/ CallSend(h)
        \/ CallFaults(h)
        \/ CallGetter(h)
        \/ CallSetter(h)
        \/ CallPowerSet(h)
        \/ CallPowerSetpointSet(h)
        \/ CallConstantCurrentSet(h)
        \/ CallDigitalModulationSet(h)
        \/ CallCurrentSetpointSet(h)
        \/ CallPercentageSplitSet(h)
        \/ CallDigitalModualtion(h)
        \/ CallSetDigitalModulation(h)
        \/ CallPortConfiguration(h)
        \/ CallExternalControlMode(h)
        \/ CallSetExternalControlMode(h)

Spec == Init /\ [][Next]_vars

----------------------------------------------------------------------------
(* Calls made from several threads.  _send takes no lock and nothing in the
   module starts a thread; a program that calls from two threads runs the
   statements of two _send calls in any order. *)

\* _send with no read: it returns once the frame is written
_send_statements_write_only == <<"write">>

\* the statements of _send that act on the transport, in program order; the
\* call returns after the last
_send_statements == <<"write", "read_until">>

\* the threads inside a call
Executing == {t \in Threads : pc[t] # 0}

\* where a thread is once it has executed statement k of _send
After(k) == IF k = Len(_send_statements) THEN 0 ELSE k

\* the transport as a statement finds it; trace keeps the statement executed
Shared == Ctx(inbuf, late)

\* self.ser.write(prefix_msg.encode('ascii')) of a get or a set made by t
ThreadWrite(t) ==
    LET k == pc[t] + 1
    IN  /\ k <= Len(_send_statements)
        /\ _send_statements[k] = "write"
        /\ \E msg \in {Query.FaultCode.value, Cmd.LaserEmission.value \o <<SP, "1">>},
              env \in Env :
            LET c == Write(Shared, prefix[HandleOf(t)] \o msg \o <<CR>>, env)
            IN  /\ Pending(c) <= MaxPending
                /\ inbuf' = c.inbuf
                /\ late' = c.late
                /\ trace' = c.trace
        /\ inflight' = inflight + 1
        /\ pc' = [pc EXCEPT ![t] = After(k)]
        /\ UNCHANGED <<prefix, call, exc, ret>>

\* self.ser.read_until(REPLY_TERMINATION) of the call t is in; it returns the
\* first line of the input buffer, whoever asked for it
ThreadRead(t) ==
    LET k == pc[t] + 1
    IN  /\ k <= Len(_send_statements)
        /\ _send_statements[k] = "read_until"
        /\ \E elapsed \in 0..MaxElapsed :
            LET c == Read(Shared, [resp |-> "none", line |-> <<>>, elapsed |-> elapsed])
            IN  /\ inbuf' = c.inbuf
                /\ late' = c.late
                /\ trace' = c.trace
        /\ inflight' = inflight - 1
        /\ pc' = [pc EXCEPT ![t] = After(k)]
        /\ UNCHANGED <<prefix, call, exc, ret>>

NextThreads ==
    \/ Deliver
    \/ \E t \in Threads :
        \/ ThreadWrite(t)
        \/ ThreadRead(t)

SpecThreads == Init /\ [][NextThreads]_vars

----------------------------------------------------------------------------
(* What a call left on the wire *)

\* the steps of the last call that wrote a frame
WriteIdx == {i \in 1..Len(trace) : trace[i].op = "write"}

\* the steps of the last call that read a reply
ReadIdx == {i \in 1..Len(trace) : trace[i].op = "read_until"}

StartsWith(s, p) == Len(s) >= Len(p) /\ SubSeq(s, 1, Len(p)) = p

\* the frame is the command cmd sent through handle h, whatever its value
IsCommand(frame, h, cmd) == StartsWith(frame, prefix[h] \o cmd.value \o <<SP>>)

\* the frame of command cmd with the value text, sent through handle h
CommandFrame(h, cmd, value) == prefix[h] \o cmd.value \o <<SP>> \o value \o <<CR>>

\* the frame of the query sent through handle h
QueryFrame(h, query) == prefix[h] \o query.value \o <<CR>>

\* how many frames of the last call are the command cmd
CommandsWritten(cmd) ==
    Cardinality({i \in WriteIdx : IsCommand(trace[i].data, call.self, cmd)})

\* how many frames of the last call are the command cmd carrying value
CommandsWrittenWith(cmd, value) ==
    Cardinality({i \in WriteIdx : trace[i].data = CommandFrame(call.self, cmd, value)})

\* the payload of the reply read at step i
PayloadAt(i) == rstrip(trace[i].data, REPLY_TERMINATION)

----------------------------------------------------------------------------
(* C1: the power_setpoint setters *)

\* C1 (as claimed): the power_setpoint setter of LBX and of LCX writes the
\* LaserPower command exactly once, carrying the value, for every value in
\* [0, max_power] (once its mode query, if any, is answered), and writes no
\* LaserPower command for a value below 0 or above max_power.
C1_PowerSetpointValidated ==
    call.op = "power_setpoint.setter" =>
        IF 0 <= call.value /\ call.value <= MaxPower
        THEN /\ CommandsWritten(Cmd.LaserPower) <= 1
             /\ exc = "none" =>
                    CommandsWrittenWith(Cmd.LaserPower, FormatInt(call.value)) = 1
        ELSE CommandsWritten(Cmd.LaserPower) = 0

----------------------------------------------------------------------------
(* C2: the timeout of _send *)

\* the call asked _send not to signal a timeout
Suppressed == call.op = "_send" /\ call.status = "quiet"

\* C2: a read that returns no bytes after more than the read timeout ends
\* the call with the transport's timeout exception, unless signalling is
\* suppressed; a read that returns no bytes in less than the timeout raises
\* nothing, and _send returns the empty string.
C2_TimeoutOnlyWhenElapsed ==
    \A i \in ReadIdx :
        Len(trace[i].data) = 0 =>
            /\ (trace[i].elapsed > Timeout /\ ~Suppressed) =>
                   (i = Len(trace) /\ exc = "SerialTimeoutException")
            /\ trace[i].elapsed < Timeout =>
                   /\ ~(i = Len(trace) /\ exc = "SerialTimeoutException")
                   /\ call.op = "_send" => (exc = "none" /\ ret = RetStr(<<>>))

\* a direct _send read no bytes in less than the timeout and returned ""
C2_Witness ==
    /\ call.op = "_send"
    /\ call.status = "raise"
    /\ Len(trace) = 2
    /\ trace[2].op = "read_until"
    /\ Len(trace[2].data) = 0
    /\ trace[2].elapsed < Timeout
    /\ exc = "none"
    /\ ret = RetStr(<<>>)

----------------------------------------------------------------------------
(* C3: the per-channel digital modulation query of the combiner *)

\* C3 (as claimed): the combiner's digital-modulation query for channel "L2"
\* writes a frame that contains "?TTL" followed by "L2".
C3_ChannelQueryWritten ==
    (call.op = "digital_modualtion" /\ call.channel = <<"L", "2">>) =>
        \E i \in WriteIdx :
            Contains(trace[i].data, Query.DigitalModulation.value \o <<"L", "2">>)

----------------------------------------------------------------------------
(* C4: bit 0 of the fault code *)

\* the fault code with bit 0 flipped
FlipBit0(f) == IF f % 2 = 0 THEN f + 1 ELSE f - 1

\* C4 (as claimed): faults reports nothing on account of bit 0: for the
\* fault code f the device reported it returns what it returns for f with
\* bit 0 flipped.
C4_Bit0Excluded ==
    (call.op = "faults" /\ exc = "none") =>
        ret = FaultsOf(FlipBit0(ParseInt(PayloadAt(Len(trace))).val))

----------------------------------------------------------------------------
(* C5: construction *)

\* C5: constructing a handle clears the input buffer, then writes exactly
\* one frame, the LaserCurrent query, and reads once; it succeeds when the
\* read returns bytes, and fails with the transport's timeout exception when
\* the read returns none after more than the timeout.
C5_ConstructionHandshake ==
    call.op = "__init__" =>
        /\ Len(trace) = 3
        /\ trace[1].op = "reset_input_buffer"
        /\ trace[2] = Ev("write", QueryFrame(call.self, Query.LaserCurrent), 0)
        /\ trace[3].op = "read_until"
        /\ Len(trace[3].data) > 0 => exc = "none"
        /\ (Len(trace[3].data) = 0 /\ trace[3].elapsed > Timeout) =>
               exc = "SerialTimeoutException"

\* the combiner was constructed against a device that answered "10.0"
C5_Witness ==
    /\ call.op = "__init__"
    /\ call.self = "combiner"
    /\ PayloadAt(3) = <<"1", "0", ".", "0">>
    /\ exc = "none"

----------------------------------------------------------------------------
(* C6: the digital_modulation setter of LBX *)

\* C6: the LBX digital_modulation setter first writes the constant_current
\* query; when the answer is OFF it logs a warning and writes no
\* DigitalModulation command; when the answer is ON it writes the
\* DigitalModulation command exactly once, with the requested value, after
\* the query has been answered.
C6_DigitalModulationGated ==
    call.op = "digital_modulation.setter" =>
        /\ Len(trace) >= 2
        /\ trace[1] = Ev("write", QueryFrame(call.self, Query.LaserDriverControlMode), 0)
        /\ trace[2].op = "read_until"
        /\ \A i \in WriteIdx :
               IsCommand(trace[i].data, call.self, Cmd.DigitalModulation) => i > 2
        /\ PayloadAt(2) = BoolValValue("OFF") =>
               /\ CommandsWritten(Cmd.DigitalModulation) = 0
               /\ WriteIdx = {1}
               /\ \E i \in 1..Len(trace) : trace[i].op = "log.warning"
               /\ exc = "none"
        /\ PayloadAt(2) = BoolValValue("ON") =>
               /\ CommandsWritten(Cmd.DigitalModulation) = 1
               /\ CommandsWrittenWith(Cmd.DigitalModulation,
                                      BoolValValue(call.status)) = 1

\* constant_current answered ON and the command to switch modulation on went out
C6_Witness ==
    /\ call.op = "digital_modulation.setter"
    /\ call.status = "ON"
    /\ PayloadAt(2) = BoolValValue("ON")
    /\ CommandsWrittenWith(Cmd.DigitalModulation, BoolValValue("ON")) = 1

----------------------------------------------------------------------------
(* C7: the current_setpoint setter of LBX *)

\* C7 (as claimed): the LBX current_setpoint setter writes no LaserCurrent
\* command for a value below 0 or above 100, and writes it for every value in
\* [0, 100] once the constant_current query is answered, ON or OFF.
C7_CurrentSetpointValidated ==
    call.op = "current_setpoint.setter" =>
        IF 0 <= call.value /\ call.value <= PercentMax
        THEN exc = "none" =>
                 CommandsWrittenWith(Cmd.LaserCurrent, FormatInt(call.value)) = 1
        ELSE CommandsWritten(Cmd.LaserCurrent) = 0

----------------------------------------------------------------------------
(* C8: the percentage_split setter of the combiner *)

\* C8: the percentage_split setter writes exactly one frame, the
\* PercentageSplit command with the value, for every value in [0, 100]; for
\* a value below 0 or above 100 it writes nothing and returns normally.
C8_PercentageSplitValidated ==
    call.op = "percentage_split.setter" =>
        IF 0 <= call.value /\ call.value <= PercentMax
        THEN /\ Cardinality(WriteIdx) = 1
             /\ CommandsWrittenWith(Cmd.PercentageSplit, FormatInt(call.value)) = 1
        ELSE /\ WriteIdx = {}
             /\ ReadIdx = {}
             /\ exc = "none"
             /\ ret = None

\* the largest percentage was sent
C8_Witness ==
    /\ call.op = "percentage_split.setter"
    /\ call.value = PercentMax
    /\ CommandsWrittenWith(Cmd.PercentageSplit, FormatInt(PercentMax)) = 1

----------------------------------------------------------------------------
(* C9: the constant_current setter of LBX *)

\* C9 (as claimed): the LBX constant_current setter always writes the
\* LaserDriverControlMode command exactly once with the requested value.
C9_AlwaysTransmits ==
    call.op = "constant_current.setter" =>
        /\ CommandsWritten(Cmd.LaserDriverControlMode) = 1
        /\ CommandsWrittenWith(Cmd.LaserDriverControlMode,
                               BoolValValue(call.status)) = 1

\* C9 (amended): for ON the setter writes the LaserDriverControlMode command
\* at once, with no query before it; for OFF it first writes the
\* digital_modulation query, and when the answer is "0" or "1" it writes the
\* command exactly once with the requested value, after a warning exactly
\* when the answer is "1"; when the query times out or the answer is any
\* other payload, the exception ends the call and no command is written.
C9_TransmitsUnlessQueryFails ==
    call.op = "constant_current.setter" =>
        LET sent == /\ CommandsWritten(Cmd.LaserDriverControlMode) = 1
                    /\ CommandsWrittenWith(Cmd.LaserDriverControlMode,
                                           BoolValValue(call.status)) = 1
            warned == \E i \in 1..Len(trace) : trace[i].op = "log.warning"
        IN  IF call.status = "ON"
            THEN /\ sent
                 /\ WriteIdx = {1}
                 /\ ~warned
            ELSE /\ trace[1] = Ev("write", QueryFrame(call.self, Query.DigitalModulation), 0)
                 /\ trace[2].op = "read_until"
                 /\ IF BoolValOf(PayloadAt(2)).ok
                    THEN /\ sent
                         /\ WriteIdx = {1, Len(trace) - 1}
                         /\ warned <=> PayloadAt(2) = BoolValValue("ON")
                    ELSE /\ CommandsWritten(Cmd.LaserDriverControlMode) = 0
                         /\ Len(trace) = 2
                         /\ exc \in {"ValueError", "SerialTimeoutException"}

\* switching to constant power while modulation is on: warned, and still sent
C9_Witness ==
    /\ call.op = "constant_current.setter"
    /\ call.status = "OFF"
    /\ PayloadAt(2) = BoolValValue("ON")
    /\ \E i \in 1..Len(trace) : trace[i].op = "log.warning"
    /\ CommandsWrittenWith(Cmd.LaserDriverControlMode, BoolValValue("OFF")) = 1

----------------------------------------------------------------------------
(* C10: BoolVal on the wire *)

\* the last call was a property that decodes its reply as a BoolVal
BoolValGetterCalled ==
    \E g \in Getters :
        /\ g.op = call.op
        /\ g.cls = ClassOf(call.self)
        /\ g.decode = "BoolVal"

\* the last call was a method that only sends a command with a BoolVal
BoolValSetterCalled ==
    \E s \in Setters : s.op = call.op /\ s.cls = ClassOf(call.self)

\* the value text of a command frame: what follows its last space, without
\* the carriage return that ends the frame
ValueOfFrame(frame) ==
    LET k == CHOOSE i \in 1..Len(frame) :
                 /\ frame[i] = SP
                 /\ \A j \in (i + 1)..Len(frame) : frame[j] # SP
    IN  SubSeq(frame, k + 1, Len(frame) - 1)

\* C10: a reply decodes as a BoolVal only when its payload is "0" (OFF) or
\* "1" (ON); every other payload, the empty one included, ends the call with
\* a ValueError and no value; and the text a BoolVal is sent as decodes back
\* to the BoolVal that was sent.
C10_BoolValDecoding ==
    /\ (BoolValGetterCalled /\ exc # "SerialTimeoutException") =>
           /\ Len(trace) = 2
           /\ IF PayloadAt(2) = <<"0">> THEN exc = "none" /\ ret = RetBoolVal("OFF")
              ELSE IF PayloadAt(2) = <<"1">> THEN exc = "none" /\ ret = RetBoolVal("ON")
              ELSE exc = "ValueError" /\ ret = None
    /\ BoolValSetterCalled =>
           /\ trace[1].op = "write"
           /\ BoolValOf(ValueOfFrame(trace[1].data)) = [ok |-> TRUE, member |-> call.status]

\* an empty reply was read where a BoolVal was expected
C10_Witness ==
    /\ call.op = "emission_status"
    /\ Len(trace) = 2
    /\ trace[2].data = <<>>
    /\ exc = "ValueError"

--------------------------------------------------------------------------------------------------------------------------------------------------------------------------------------------------------------
(* C12: one request in flight on a shared transport *)

-----------
(* C13: the walk over the fault bits *)

\* bit k of a fault code f >= 0
Bit(f, k) == (f \div (2 ^ k)) % 2

\* C13 (as claimed): for the fault code f the device reported, faults returns
\* a list that holds the field at bit position k >= 1 exactly when bit k of f
\* is 1, for every field DIODE_CURRENT .. INTERLOCK.
C13_AllFaultBitsWalked ==
    (call.op = "faults" /\ exc = "none") =>
        LET f == ParseInt(PayloadAt(Len(trace))).val
        IN  /\ ret.kind = "list"
            /\ \A k \in 1..Len(FaultCodeField) :
                   FaultCodeField[k] >= 1 =>
                       ((\E j \in 1..Len(ret.list) : ret.list[j] = FaultCodeField[k])
                            <=> Bit(f, FaultCodeField[k]) = 1)

----------------------------------------------------------------------------
(* C14: set_digital_modulation of the combiner *)

\* C14 (as claimed): set_digital_modulation(channel, value) first writes a
\* query of the LaserDriverControlMode of the channel; when the answer is OFF
\* it writes no DigitalModulation command, otherwise it writes exactly one
\* frame carrying the DigitalModulation mnemonic composed with the channel
\* token, and the value.
C14_ChannelModulationSet ==
    call.op = "set_digital_modulation" =>
        LET command == Concat(Cmd.DigitalModulation, Str(call.channel))
        IN  /\ Len(trace) >= 2
            /\ trace[1].op = "write"
            /\ Contains(trace[1].data, Query.LaserDriverControlMode.value)
            /\ trace[2].op = "read_until"
            /\ IF PayloadAt(2) = BoolValValue("OFF")
               THEN CommandsWritten(command) = 0
               ELSE exc = "none" =>
                        CommandsWrittenWith(command, BoolValValue(call.status)) = 1

----------------------------------------------------------------------------
(* C15: port_configuration of the combiner *)

\* C15 (as claimed): port_configuration returns STANDARD_USB when the payload
\* of the reply to the USBConfiguration query is "0" and VIRTUAL_SERIAL_PORT
\* when it is "1".
C15_PortConfigurationDecoded ==
    (call.op = "port_configuration" /\ Len(trace) = 2) =>
        /\ trace[1] = Ev("write", QueryFrame(call.self, Query.USBConfiguration), 0)
        /\ PayloadAt(2) = <<"0">> =>
               (exc = "none" /\ ret = RetUSBConfiguration("STANDARD_USB"))
        /\ PayloadAt(2) = <<"1">> =>
               (exc = "none" /\ ret = RetUSBConfiguration("VIRTUAL_SERIAL_PORT"))

-----------
(* C11: framing *)

\* the texts a query frame can carry
QueryMnemonics == {Query[k].value : k \in DOMAIN Query}

\* the texts a command frame can start with: a command, or a command
\* composed with a channel token
CommandMnemonics ==
    {Cmd[k].value : k \in DOMAIN Cmd}
    \cup {Cmd[k].value \o ch : k \in DOMAIN Cmd, ch \in Channels}

Without(s, ch) == \A i \in 1..Len(s) : s[i] # ch

\* mnemonic, one space, value
IsCommandBody(body) ==
    \E m \in CommandMnemonics :
        /\ StartsWith(body, m \o <<SP>>)
        /\ Len(body) > Len(m) + 1
        /\ Without(SubSeq(body, Len(m) + 2, Len(body)), SP)

\* prefix and one space when the handle was given a prefix, then a query
\* mnemonic or a command body, then one carriage return
WellFramed(frame, h) ==
    LET head == IF PrefixArg(h).none THEN <<>> ELSE PrefixArg(h).str \o <<SP>>
        body == SubSeq(frame, Len(head) + 1, Len(frame) - 1)
    IN  /\ StartsWith(frame, head)
        /\ Len(frame) > Len(head) + 1
        /\ frame[Len(frame)] = CR
        /\ Without(body, CR)
        /\ Without(body, LF)
        /\ body \in QueryMnemonics \/ IsCommandBody(body)

\* the bytes end with '\r\n' and hold no '\r\n' before that
UpToTerminator(data) ==
    /\ Len(data) >= 2
    /\ SubSeq(data, Len(data) - 1, Len(data)) = <<CR, LF>>
    /\ ~Contains(SubSeq(data, 1, Len(data) - 1), <<CR, LF>>)

----------------------------------------------------------------------------
(* C16: whose reply a call returns *)

\* C16 (as claimed): in every sequence of calls made one at a time, late
\* replies included, each reply a call reads is the device's answer to the
\* frame that call wrote just before, never the answer to an earlier request.
C16_ReplyIsOwn ==
    \A i \in ReadIdx :
        trace[i].data # <<>> => (i > 1 /\ trace[i].answers = i - 1)

====
